---------------------------- MODULE Spec2Model ----------------------------
(***************************************************************************)
(* Model of doji_alert.py: the tick fetcher (fetch_ticks), the 09:15-09:20 *)
(* window aggregator (aggregate_5min), the Doji classifier (is_doji), the  *)
(* mail sender (send_email_html) and the batch driver (main), together     *)
(* with the module body that runs before main.                             *)
(*                                                                         *)
(* Prices are exact integers (multiples of the price tick), so that the    *)
(* ratios the code computes with "/" are compared by cross-multiplying.    *)
(* Timestamps are milliseconds counted from a UTC midnight (an epoch value *)
(* that is a multiple of one day), which leaves every time of day as the   *)
(* code computes it.                                                       *)
(***************************************************************************)
EXTENDS Integers, Sequences, FiniteSets, TLC

\* ------------------------------------------------------------ bounds
\* how many entries of SYMBOLS the driver iterates over
NumSymbols == 2
\* longest list of [timestamp, price] pairs a response carries
MaxFeedLen == 3
\* candles given to the classifier have their four prices in 0..MaxPrice
MaxPrice == 12
\* the attempt cap of the adapter contract fetchTicks(symbol, maxAttempts);
\* fetch_ticks(symbol) has no such parameter and reads no such value
maxAttempts == 3

\* ------------------------------------------------------------ values
AllSymbols == <<"ABB", "ACC", "APLAPOLLO", "AUBANK", "AARTIIND">>
SYMBOLS == SubSeq(AllSymbols, 1, NumSymbols)

None == [none |-> TRUE]

MsPerDay == 24 * 60 * 60 * 1000
\* datetime.time(h, m) as milliseconds after midnight
dtime(h, m) == (h * 60 + m) * 60 * 1000
\* IST is UTC+05:30
IstOffset == dtime(5, 30)

\* sample instants (milliseconds after a UTC midnight)
Ist0915 == dtime(9, 15) - IstOffset
Utc091459 == dtime(9, 15) - 1
Utc0915 == dtime(9, 15)
Utc091959 == dtime(9, 20) - 1
Utc0920 == dtime(9, 20)

TsAll == {Ist0915, Utc091459, Utc0915, Utc091959, Utc0920}
TsMain == {Ist0915, Utc0915}
Prices == {0, 1000, 1001}
Statuses == {200, 404, 429, 500}
StatusesMain == {200, 500}

RECURSIVE SeqsUpTo(_, _)
SeqsUpTo(S, n) ==
    IF n = 0 THEN {<<>>}
    ELSE LET shorter == SeqsUpTo(S, n - 1)
         IN shorter \cup {Append(q, x) : q \in {r \in shorter : Len(r) = n - 1}, x \in S}

\* a feed: the list of [timestamp-millis, price] pairs under "grapthData"
Pairs(ts) == [ts : ts, price : Prices]
Feeds(ts) == SeqsUpTo(Pairs(ts), MaxFeedLen)

\* the shapes of a response body
Shapes == {"nonjson", "nondict", "nofield", "baditems", "pairs"}
Bodies(ts) ==
    {[shape |-> sh, pairs |-> <<>>] : sh \in Shapes}
    \cup {[shape |-> "pairs", pairs |-> f] : f \in Feeds(ts)}

NoBody == [shape |-> "nonjson", pairs |-> <<>>]
Exception == [kind |-> "exception", status |-> 0, body |-> NoBody]
Hang == [kind |-> "hang", status |-> 0, body |-> NoBody]
Response(st, b) == [kind |-> "response", status |-> st, body |-> b]

\* what a GET can do: raise, never return, or answer
PrimeOutcomes(sts) == {Exception, Hang} \cup {Response(st, NoBody) : st \in sts}
\* bodies of every shape under status 200, the short ones under the other statuses
DataOutcomes(sts, ts) ==
    {Exception, Hang}
    \cup {Response(200, b) : b \in Bodies(ts)}
    \cup {Response(st, b) : st \in sts \ {200}, b \in {x \in Bodies(ts) : Len(x.pairs) <= 1}}

\* the outcomes drawn for a call of fetch_ticks alone, and for a call inside main
PrimeOutcomesAll == PrimeOutcomes(Statuses)
DataOutcomesAll == DataOutcomes(Statuses, TsAll)
PrimeOutcomesMain == PrimeOutcomes({200})
DataOutcomesMain == DataOutcomes(StatusesMain, TsMain)

\* ------------------------------------------------------------ fetch_ticks
utcfromtimestamp(ms) == [day |-> ms \div MsPerDay, tod |-> ms % MsPerDay]

\* line 90: the list comprehension over data
convert(pairs) ==
    [k \in 1..Len(pairs) |-> [dt |-> utcfromtimestamp(pairs[k].ts), price |-> pairs[k].price]]

\* lines 86-90: r.json().get("grapthData", []) and what follows
parse_body(b) ==
    CASE b.shape = "nonjson" -> [exc |-> "JSONDecodeError", ret |-> <<>>]
      [] b.shape = "nondict" -> [exc |-> "AttributeError", ret |-> <<>>]
      [] b.shape = "nofield" -> [exc |-> "none", ret |-> <<>>]
      [] b.shape = "baditems" -> [exc |-> "TypeError", ret |-> <<>>]
      [] OTHER -> [exc |-> "none", ret |-> convert(b.pairs)]

\* a status check that lets every status through
status_check_none(st) == "none"

\* lines 83-84
status_check(st) == IF st # 200 THEN "ValueError" ELSE "none"

fetched(reqs, blocked, exc, ret) ==
    [requests |-> reqs, blocked |-> blocked, exc |-> exc, ret |-> ret]

\* lines 71-90: the body of the try
try_body(symbol, prime, data) ==
    LET p == [url |-> "get-quotes/equity", arg |-> symbol]
        d == [url |-> "api/chart-databyindex", arg |-> symbol \o "EQN"]
    IN  CASE prime.kind = "hang" -> fetched(<<p>>, TRUE, "none", <<>>)
          [] prime.kind = "exception" -> fetched(<<p>>, FALSE, "RequestException", <<>>)
          [] data.kind = "hang" -> fetched(<<p, d>>, TRUE, "none", <<>>)
          [] data.kind = "exception" -> fetched(<<p, d>>, FALSE, "RequestException", <<>>)
          [] status_check(data.status) # "none" ->
                fetched(<<p, d>>, FALSE, status_check(data.status), <<>>)
          [] OTHER ->
                LET r == parse_body(data.body)
                IN  fetched(<<p, d>>, FALSE, r.exc, r.ret)

\* a handler that catches ValueError and its subclasses only
except_ValueError(b) ==
    IF b.exc \in {"ValueError", "JSONDecodeError"}
    THEN [b EXCEPT !.exc = "none", !.ret = <<>>]
    ELSE b

\* lines 91-93: except Exception: return []
except_Exception(b) ==
    IF b.exc # "none" THEN [b EXCEPT !.exc = "none", !.ret = <<>>] ELSE b

\* lines 67-93
fetch_ticks(symbol, prime, data) ==
    LET b == try_body(symbol, prime, data)
    IN  IF b.blocked THEN b ELSE except_Exception(b)

\* ------------------------------------------------------------ aggregate_5min
Max(S) == CHOOSE x \in S : \A y \in S : y <= x
Min(S) == CHOOSE x \in S : \A y \in S : x <= y
Range(q) == {q[k] : k \in 1..Len(q)}

in_window(dt) == dtime(9, 15) <= dt.tod /\ dt.tod < dtime(9, 20)

\* lines 95-105
aggregate_5min(ticks) ==
    LET sel == SelectSeq(ticks, LAMBDA t : in_window(t.dt))
        window == [k \in 1..Len(sel) |-> sel[k].price]
    IN  IF window = <<>> THEN None
        ELSE [open |-> window[1], high |-> Max(Range(window)),
              low |-> Min(Range(window)), close |-> window[Len(window)]]

\* ------------------------------------------------------------ is_doji
abs(x) == IF x < 0 THEN -x ELSE x
min2(a, b) == IF a <= b THEN a ELSE b
max2(a, b) == IF a >= b THEN a ELSE b

\* a classifier whose threshold comparison is >= instead of >
is_doji_strict(ohlc) ==
    LET body == abs(ohlc.close - ohlc.open)
        rng == ohlc.high - ohlc.low
        lower_sh == min2(ohlc.open, ohlc.close) - ohlc.low
        upper_sh == ohlc.high - max2(ohlc.open, ohlc.close)
    IN  IF rng <= 0 \/ 10 * body >= rng THEN [ok |-> FALSE, kind |-> "None"]
        ELSE IF 2 * lower_sh <= 3 * body /\ upper_sh >= body * 2
             THEN [ok |-> TRUE, kind |-> "Gravestone Doji"]
             ELSE [ok |-> TRUE, kind |-> "Doji"]

\* lines 107-118, body_thresh = 0.1: body / rng > 0.1 is 10 * body > rng for rng > 0,
\* lower_sh <= body * 1.5 is 2 * lower_sh <= 3 * body
is_doji(ohlc) ==
    LET o == ohlc.open
        h == ohlc.high
        l == ohlc.low
        c == ohlc.close
        body == abs(c - o)
        rng == h - l
        lower_sh == min2(o, c) - l
        upper_sh == h - max2(o, c)
    IN  IF rng <= 0 \/ 10 * body > rng THEN [ok |-> FALSE, kind |-> "None"]
        ELSE IF 2 * lower_sh <= 3 * body /\ upper_sh >= body * 2
             THEN [ok |-> TRUE, kind |-> "Gravestone Doji"]
             ELSE [ok |-> TRUE, kind |-> "Doji"]

\* ------------------------------------------------------------ main
\* a range filter that lets every candle through
range_filter_none(ohlc) == TRUE

\* line 155, the second conjunct: (high - low) / open * 100 < 1, for open # 0
range_filter(ohlc) ==
    IF ohlc.open > 0 THEN 100 * (ohlc.high - ohlc.low) < ohlc.open
    ELSE 100 * (ohlc.high - ohlc.low) > ohlc.open

\* lines 150-156: the body of the try of one iteration, given what fetch_ticks did
loop_body(sym, f, m) ==
    IF f.exc # "none" THEN [matches |-> m, ohlc |-> None, exc |-> f.exc]
    ELSE LET ohlc == aggregate_5min(f.ret)
         IN  IF ohlc = None THEN [matches |-> m, ohlc |-> None, exc |-> "none"]
             ELSE LET d == is_doji(ohlc)
                  IN  IF ~d.ok THEN [matches |-> m, ohlc |-> ohlc, exc |-> "none"]
                      ELSE IF ohlc.open = 0
                           THEN [matches |-> m, ohlc |-> ohlc, exc |-> "ZeroDivisionError"]
                      ELSE IF range_filter(ohlc)
                           THEN [matches |-> Append(m, [sym |-> sym, kind |-> d.kind, ohlc |-> ohlc]),
                                 ohlc |-> ohlc, exc |-> "none"]
                      ELSE [matches |-> m, ohlc |-> ohlc, exc |-> "none"]

\* an iteration whose exception leaves main
no_except(exc) == IF exc # "none" THEN "crashed" ELSE "loop"

\* lines 157-158: except Exception: print; the loop goes on
except_continue(exc) == "loop"

VARIABLES
    pc,             \* "load", "loop", "blocked", "done", "crashed"
    environ,        \* which of the two variables the environment (or .env) sets
    sBound,         \* whether the name s resolves where the module body runs
    GMAIL_USER,     \* "unset" before line 21, then "None" or "value"
    GMAIL_APP_PWD,  \* "unset" before line 22, then "None" or "value"
    i,              \* index into SYMBOLS of the symbol the loop is at
    matches,        \* main's list of (sym, kind, ohlc)
    log,            \* per finished or blocked iteration: requests issued, candle, exception
    notifyCalls,    \* calls of send_email_html
    mailOut,        \* "none", or how the SMTP exchange went: "sent", "raise", "hang"
    escaped,        \* the exception that left the process, or "none"
    tpc, tSym, tPrime, tData, tRet, tOhlc,  \* one call of fetch_ticks, then aggregate_5min
    dpc, candle, verdict                    \* one call of is_doji

mainVars == <<pc, environ, sBound, GMAIL_USER, GMAIL_APP_PWD, i, matches, log,
              notifyCalls, mailOut, escaped>>
tickVars == <<tpc, tSym, tPrime, tData, tRet, tOhlc>>
dojiVars == <<dpc, candle, verdict>>
vars == <<mainVars, tickVars, dojiVars>>

NoVerdict == [ok |-> FALSE, kind |-> "None"]
NoFetch == fetched(<<>>, FALSE, "none", <<>>)

MainIdle ==
    /\ pc = "idle" /\ environ = [GMAIL_USER |-> TRUE, GMAIL_APP_PWD |-> TRUE]
    /\ sBound = FALSE /\ GMAIL_USER = "unset" /\ GMAIL_APP_PWD = "unset"
    /\ i = 1 /\ matches = <<>> /\ log = <<>>
    /\ notifyCalls = 0 /\ mailOut = "none" /\ escaped = "none"
TickIdle ==
    /\ tpc = "idle" /\ tSym = SYMBOLS[1] /\ tPrime = Exception /\ tData = Exception
    /\ tRet = NoFetch /\ tOhlc = None
DojiIdle ==
    /\ dpc = "idle" /\ candle = [open |-> 0, high |-> 0, low |-> 0, close |-> 0]
    /\ verdict = NoVerdict

\* ---- the program, from the start of the process
Init ==
    /\ pc = "load"
    /\ environ \in [GMAIL_USER : BOOLEAN, GMAIL_APP_PWD : BOOLEAN]
    /\ sBound \in BOOLEAN
    /\ GMAIL_USER = "unset" /\ GMAIL_APP_PWD = "unset"
    /\ i = 1 /\ matches = <<>> /\ log = <<>>
    /\ notifyCalls = 0 /\ mailOut = "none" /\ escaped = "none"
    /\ TickIdle /\ DojiIdle

getenv(name) == IF environ[name] THEN "value" ELSE "None"

\* lines 20-34 and 162-163: the module body up to the call of main. Line 29 reads the
\* name s, which the module never binds: NameError unless the namespace supplies it.
Load ==
    /\ pc = "load"
    /\ GMAIL_USER' = getenv("GMAIL_USER")
    /\ GMAIL_APP_PWD' = getenv("GMAIL_APP_PWD")
    /\ IF sBound THEN pc' = "loop" /\ escaped' = escaped
       ELSE pc' = "crashed" /\ escaped' = "NameError"
    /\ UNCHANGED <<environ, sBound, i, matches, log, notifyCalls, mailOut>>
    /\ UNCHANGED <<tickVars, dojiVars>>

\* lines 148-158: one iteration of the loop, given what the two GETs did
Step(prime, data) ==
    \E f \in {fetch_ticks(SYMBOLS[i], prime, data)} :
    \E r \in {loop_body(SYMBOLS[i], f, matches)} :
        IF f.blocked
        THEN /\ pc' = "blocked"
             /\ log' = Append(log, [sym |-> SYMBOLS[i], requests |-> f.requests,
                                    blocked |-> TRUE, exc |-> "none", ohlc |-> None])
             /\ UNCHANGED <<i, matches, escaped>>
        ELSE /\ pc' = except_continue(r.exc)
             /\ escaped' = IF except_continue(r.exc) = "crashed" THEN r.exc ELSE escaped
             /\ log' = Append(log, [sym |-> SYMBOLS[i], requests |-> f.requests,
                                    blocked |-> FALSE, exc |-> r.exc, ohlc |-> r.ohlc])
             /\ matches' = r.matches
             /\ i' = i + 1

Iterate ==
    /\ pc = "loop"
    /\ i <= Len(SYMBOLS)
    /\ \E prime \in PrimeOutcomesMain :
          IF prime.kind # "response" THEN Step(prime, Hang)
          ELSE \E data \in DataOutcomesMain : Step(prime, data)
    /\ UNCHANGED <<environ, sBound, GMAIL_USER, GMAIL_APP_PWD, notifyCalls, mailOut>>
    /\ UNCHANGED <<tickVars, dojiVars>>

\* how the SMTP exchange of lines 141-143 can go: login cannot succeed without credentials
MailOutcomes ==
    IF GMAIL_USER = "None" \/ GMAIL_APP_PWD = "None" THEN {"raise", "hang"}
    ELSE {"sent", "raise", "hang"}

\* lines 159-160 with 120-143: main calls send_email_html outside any try
Notify ==
    /\ pc = "loop"
    /\ i > Len(SYMBOLS)
    /\ matches # <<>>
    /\ notifyCalls' = notifyCalls + 1
    /\ \E out \in MailOutcomes :
          /\ mailOut' = out
          /\ pc' = CASE out = "sent" -> "done" [] out = "raise" -> "crashed" [] OTHER -> "blocked"
          /\ escaped' = IF out = "raise" THEN "SMTPException" ELSE escaped
    /\ UNCHANGED <<environ, sBound, GMAIL_USER, GMAIL_APP_PWD, i, matches, log>>
    /\ UNCHANGED <<tickVars, dojiVars>>

\* line 159 with an empty list: main returns
Finish ==
    /\ pc = "loop"
    /\ i > Len(SYMBOLS)
    /\ matches = <<>>
    /\ pc' = "done"
    /\ UNCHANGED <<environ, sBound, GMAIL_USER, GMAIL_APP_PWD, i, matches, log,
                   notifyCalls, mailOut, escaped>>
    /\ UNCHANGED <<tickVars, dojiVars>>

Next == Load \/ Iterate \/ Notify \/ Finish

Spec == Init /\ [][Next]_vars

\* the interpreter runs the process on: every enabled step is eventually taken
FairSpec == Spec /\ WF_vars(Next)

\* ---- one call of fetch_ticks followed by aggregate_5min
InitTicks ==
    /\ tpc = "call" /\ tSym \in Range(SYMBOLS)
    /\ tPrime = Exception /\ tData = Exception /\ tRet = NoFetch /\ tOhlc = None
    /\ MainIdle /\ DojiIdle

Fetch ==
    /\ tpc = "call"
    /\ \E prime \in PrimeOutcomesAll :
       \E data \in IF prime.kind = "response" THEN DataOutcomesAll ELSE {Hang} :
          /\ tPrime' = prime
          /\ tData' = data
          /\ tRet' = fetch_ticks(tSym, prime, data)
          /\ tpc' = IF fetch_ticks(tSym, prime, data).blocked THEN "blocked"
                    ELSE IF fetch_ticks(tSym, prime, data).exc # "none" THEN "raised"
                    ELSE "returned"
    /\ UNCHANGED <<tSym, tOhlc>>
    /\ UNCHANGED <<mainVars, dojiVars>>

Aggregate ==
    /\ tpc = "returned"
    /\ tOhlc' = aggregate_5min(tRet.ret)
    /\ tpc' = "aggregated"
    /\ UNCHANGED <<tSym, tPrime, tData, tRet>>
    /\ UNCHANGED <<mainVars, dojiVars>>

NextTicks == Fetch \/ Aggregate

SpecTicks == InitTicks /\ [][NextTicks]_vars

\* ---- one call of is_doji
Candles == [open : 0..MaxPrice, high : 0..MaxPrice, low : 0..MaxPrice, close : 0..MaxPrice]

InitDoji ==
    /\ dpc = "call" /\ candle \in Candles /\ verdict = NoVerdict
    /\ MainIdle /\ TickIdle

Classify ==
    /\ dpc = "call"
    /\ verdict' = is_doji(candle)
    /\ dpc' = "returned"
    /\ UNCHANGED candle
    /\ UNCHANGED <<mainVars, tickVars>>

NextDoji == Classify

SpecDoji == InitDoji /\ [][NextDoji]_vars

\* ====================================================================
\* Properties
\* ====================================================================
Count(q, P(_)) == Cardinality({k \in 1..Len(q) : P(q[k])})
IsPrime(req) == req.url = "get-quotes/equity"
IsData(req) == req.url = "api/chart-databyindex"
CallEnded == tpc \in {"returned", "raised", "aggregated"}

\* the data request was made and answered 200 with a non-empty list of pairs
YieldedPairs ==
    /\ tPrime.kind = "response"
    /\ tData.kind = "response"
    /\ tData.status = 200
    /\ tData.body.shape = "pairs"
    /\ tData.body.pairs # <<>>

\* C1: fetch_ticks never raises to its caller. Whatever the priming request and the data
\* request did (exception, any status, unparseable body, body without the field), a call
\* that ends ends by returning a sequence, and the sequence is empty unless the data
\* request answered 200 with a non-empty list of [timestamp, price] pairs.
C1_NeverRaises ==
    CallEnded =>
        /\ tpc # "raised"
        /\ tRet.exc = "none"
        /\ DOMAIN tRet.ret = 1..Len(tRet.ret)
        /\ (~YieldedPairs => tRet.ret = <<>>)

\* a call that met a 200 answer whose JSON is not an object, and returned nothing
C1_Witness ==
    /\ tpc = "returned"
    /\ tData.kind = "response" /\ tData.status = 200 /\ tData.body.shape = "nondict"
    /\ tRet.ret = <<>>

Sustained500 ==
    /\ CallEnded
    /\ tPrime.kind = "response"
    /\ tData.kind = "response"
    /\ tData.status = 500

LoopOver == Len(log) = Len(SYMBOLS) /\ ~log[Len(log)].blocked

\* C3: per-symbol isolation in main. Every symbol is processed once and in list order, no
\* exception of an iteration (fetch failure, division by a zero open price) leaves main,
\* and a run that ends after entering the loop has fetched and evaluated every symbol.
C3_Isolation ==
    /\ Len(log) <= Len(SYMBOLS)
    /\ \A k \in 1..Len(log) :
          /\ log[k].sym = SYMBOLS[k]
          /\ Count(log[k].requests, IsPrime) = 1
          /\ log[k].requests[1].arg = SYMBOLS[k]
          /\ (log[k].blocked => k = Len(log) /\ pc = "blocked")
    /\ i = Cardinality({k \in 1..Len(log) : ~log[k].blocked}) + 1
    /\ escaped \in {"none", "NameError", "SMTPException"}
    /\ (escaped = "NameError" => log = <<>>)
    /\ (escaped = "SMTPException" => LoopOver)
    /\ (pc = "done" => LoopOver)
    /\ (pc = "crashed" => escaped # "none")

\* a run that ended normally, in which a symbol hit the division by zero and a later
\* symbol was still fetched, evaluated and matched
C3_Witness ==
    /\ pc = "done"
    /\ \E k \in 1..Len(log) : \E j \in 1..Len(log) :
          /\ k < j
          /\ log[k].exc = "ZeroDivisionError"
          /\ Len(log[j].requests) = 2
          /\ \E m \in 1..Len(matches) : matches[m].sym = log[j].sym

\* the classification of section 4.3, from its wording
C_Body(c) == IF c.close >= c.open THEN c.close - c.open ELSE c.open - c.close
C_Range(c) == c.high - c.low
C_Lower(c) == (IF c.open <= c.close THEN c.open ELSE c.close) - c.low
C_Upper(c) == c.high - (IF c.open >= c.close THEN c.open ELSE c.close)
C_Match(c) == C_Range(c) > 0 /\ ~(10 * C_Body(c) > C_Range(c))
C_Gravestone(c) == 2 * C_Lower(c) <= 3 * C_Body(c) /\ C_Upper(c) >= 2 * C_Body(c)
C_Kind(c) == IF C_Gravestone(c) THEN "Gravestone Doji" ELSE "Doji"
\* (high - low) / open * 100 < 1
C_Under1Pct(c) ==
    \/ c.open > 0 /\ 100 * C_Range(c) < c.open
    \/ c.open < 0 /\ 100 * C_Range(c) > c.open
C_Reported(c) == c # None /\ C_Match(c) /\ C_Under1Pct(c)

RECURSIVE C4_Expected(_)
C4_Expected(q) ==
    IF q = <<>> THEN <<>>
    ELSE LET e == q[Len(q)]
             front == C4_Expected(SubSeq(q, 1, Len(q) - 1))
         IN  IF C_Reported(e.ohlc)
             THEN Append(front, [sym |-> e.sym, kind |-> C_Kind(e.ohlc), ohlc |-> e.ohlc])
             ELSE front

\* C4: the match list holds exactly the symbols whose candle is not None, is classified a
\* match and has a range under 1% of its open, once each, in list order, with kind and
\* candle; a candle with a range of 1% or more is never in it; and send_email_html is
\* called once, after the last symbol, if and only if the list is not empty.
C4_MatchList ==
    /\ matches = C4_Expected(log)
    /\ \A m \in 1..Len(matches) : ~(100 * C_Range(matches[m].ohlc) >= matches[m].ohlc.open)
    /\ notifyCalls <= 1
    /\ (notifyCalls = 1 => LoopOver /\ matches # <<>>)
    /\ (pc = "done" => (notifyCalls = 1 <=> matches # <<>>))
    /\ (mailOut # "none" <=> notifyCalls = 1)

\* a finished run with one match mailed, in which another symbol's candle was a Doji by
\* shape and was left out for its range
C4_Witness ==
    /\ pc = "done"
    /\ Len(matches) = 1
    /\ notifyCalls = 1
    /\ \E k \in 1..Len(log) :
          /\ log[k].ohlc # None
          /\ C_Match(log[k].ohlc)
          /\ log[k].ohlc.open > 0
          /\ ~C_Under1Pct(log[k].ohlc)

\* open=100.00, high=100.50, low=99.99, close=100.00, in hundredths
C5_Example == [open |-> 10000, high |-> 10050, low |-> 9999, close |-> 10000]

\* C5: is_doji answers not-a-match when high-low <= 0 and when body/range > 0.1;
\* otherwise Gravestone Doji when lower shadow <= 1.5*body and upper shadow >= 2*body,
\* otherwise Doji. body/range = 0.1 exactly is a match, and a candle with no body and a
\* positive range is a Gravestone Doji only if its lower shadow is 0. (A shadow is a
\* length: the last clause is read on candles whose low is not above open and close, as
\* in every candle aggregate_5min builds; the rules themselves are read on every
\* quadruple, high below low included.)
C5_Classify ==
    dpc = "returned" =>
        /\ (C_Range(candle) <= 0 => ~verdict.ok /\ verdict.kind = "None")
        /\ (C_Range(candle) > 0 /\ 10 * C_Body(candle) > C_Range(candle)
                => ~verdict.ok /\ verdict.kind = "None")
        /\ (C_Match(candle) /\ C_Gravestone(candle)
                => verdict.ok /\ verdict.kind = "Gravestone Doji")
        /\ (C_Match(candle) /\ ~C_Gravestone(candle)
                => verdict.ok /\ verdict.kind = "Doji")
        /\ (C_Range(candle) > 0 /\ 10 * C_Body(candle) = C_Range(candle) => verdict.ok)
        /\ (C_Body(candle) = 0 /\ verdict.kind = "Gravestone Doji" /\ C_Lower(candle) >= 0
                => C_Lower(candle) = 0)
        /\ is_doji(C5_Example) = [ok |-> TRUE, kind |-> "Doji"]

\* a classified candle whose body is exactly a tenth of its range
C5_Witness ==
    /\ dpc = "returned"
    /\ C_Body(candle) > 0
    /\ 10 * C_Body(candle) = C_Range(candle)
    /\ verdict.ok

\* the time of day in IST of an instant
IstTod(ts) == (ts + IstOffset) % MsPerDay
InIstWindow(ts) == dtime(9, 15) <= IstTod(ts) /\ IstTod(ts) < dtime(9, 20)
IstPrices(pairs) == {pairs[k].price : k \in {j \in 1..Len(pairs) : InIstWindow(pairs[j].ts)}}

\* C6 as stated: aggregate_5min keeps exactly the ticks whose IST time of day is in
\* [09:15:00, 09:20:00), and answers None exactly when no tick is in that window.
C6_IstWindow ==
    (tpc = "aggregated" /\ YieldedPairs) =>
        /\ (tOhlc = None <=> IstPrices(tData.body.pairs) = {})
        /\ (tOhlc # None =>
                /\ tOhlc.high = Max(IstPrices(tData.body.pairs))
                /\ tOhlc.low = Min(IstPrices(tData.body.pairs)))

CredentialAbsent == ~environ.GMAIL_USER \/ ~environ.GMAIL_APP_PWD

\* C7 as stated: with a credential absent from the environment the run aborts at startup:
\* no priming or data request is made and no notification is attempted.
C7_AbortsAtStartup ==
    CredentialAbsent => log = <<>> /\ notifyCalls = 0

\* C8 as stated: a mail delivery that raises is caught inside the run: no exception
\* leaves the entry point and the run ends normally.
C8_DeliveryFailureCaught ==
    mailOut = "raise" => escaped = "none" /\ pc = "done"

\* C9 as stated: every run terminates; a request the upstream never answers ends, and
\* the batch reaches its end.
C9_Terminates == <>(pc \in {"done", "crashed"})

\* the pairs aggregate_5min keeps
Kept(pairs) == {k \in 1..Len(pairs) : in_window(utcfromtimestamp(pairs[k].ts))}
Earliest(pairs) == {k \in Kept(pairs) : \A j \in Kept(pairs) : pairs[k].ts <= pairs[j].ts}
Latest(pairs) == {k \in Kept(pairs) : \A j \in Kept(pairs) : pairs[k].ts >= pairs[j].ts}

\* C10 as stated: for a feed in any order, open is the price of the tick with the smallest
\* timestamp in the window, close that of the tick with the largest, high and low the
\* largest and smallest window price, so that low <= open, close <= high.
C10_Chronological ==
    (tpc = "aggregated" /\ YieldedPairs /\ tOhlc # None) =>
        /\ \E k \in Earliest(tData.body.pairs) : tOhlc.open = tData.body.pairs[k].price
        /\ \E k \in Latest(tData.body.pairs) : tOhlc.close = tData.body.pairs[k].price
        /\ tOhlc.high = Max({tData.body.pairs[k].price : k \in Kept(tData.body.pairs)})
        /\ tOhlc.low = Min({tData.body.pairs[k].price : k \in Kept(tData.body.pairs)})
        /\ tOhlc.low <= tOhlc.open /\ tOhlc.open <= tOhlc.high
        /\ tOhlc.low <= tOhlc.close /\ tOhlc.close <= tOhlc.high

====
